---------------------------- MODULE Spec2Model ----------------------------
(***************************************************************************)
(* Model of the two Lambda handlers of aws-financial-data-discovery-samples *)
(*                                                                         *)
(*   src/src/eventbridge-macie/lambda_handler.py  (Classification Tagger)  *)
(*   src/src/s3-events/lambda_handler.py          (Notification            *)
(*                                                 Configurator)           *)
(*                                                                         *)
(* The storage service (S3) is the environment: every call to it ends in   *)
(* one of three ways, "ok", a botocore ClientError (the service answered   *)
(* with an error) or another exception (a client-side botocore error such  *)
(* as a connection failure or a parameter validation error, which is not a *)
(* ClientError).                                                           *)
(***************************************************************************)
EXTENDS Integers, Sequences, FiniteSets, TLC

\* ------------------------------------------------------------------------
\* Bounds of the model
\* ------------------------------------------------------------------------

\* most records in one event handed to the Tagger
MaxRecords == 2

\* the severity scores a report carries are 1 .. MaxScore
MaxScore == 4

\* ------------------------------------------------------------------------
\* Program constants of the Tagger (module level, lines 37-55)
\* ------------------------------------------------------------------------

TAG_KEY_NAME == "Severity"

SCORE_THRESHOLD == 3

GLACIER_TRANSITION_DAYS == 365

EXPIRE_OBJECTS_DAYS == 1825

\* ------------------------------------------------------------------------
\* Values
\* ------------------------------------------------------------------------

\* Python's None / an absent JSON member
Missing == "<missing>"

\* the three ways a call to the storage service ends
S3Outcomes == {"ok", "ClientError", "OtherError"}

\* the Tagger invocations that may be in flight at once
Invocations == {1, 2}

\* Keys are sequences of tokens; a percent escape is one token.
\* The records an event may carry: where a classification report was written.
EventRecords ==
    { [bucket |-> "results", key |-> <<"f", "%2B", "x", "+", "y">>, versionId |-> Missing] }

\* urllib.parse.unquote_plus: "+" is a space, "%2B" is a plus sign
unquote_plus(key) ==
    [i \in DOMAIN key |->
        IF key[i] = "+" THEN " "
        ELSE IF key[i] = "%2B" THEN "+"
        ELSE key[i]]

\* the objects the findings are about
AffectedBucket == "data"

AffectedKeys == { <<"k1">>, <<"k2">> }

Versions == { Missing, "v1" }

\* detail.severity.score as found in the JSON document
Scores ==
    { [kind |-> "absent", val |-> 0], [kind |-> "text", val |-> 0] }
    \cup [kind : {"int"}, val : 1..MaxScore]

\* detail.severity.description
Descriptions == { Missing, "Low", "High" }

NoResources == [kind |-> "absent", bucket |-> Missing, key |-> <<>>, versionId |-> Missing]

\* detail.resourcesAffected: absent, an empty object, a non-empty object
\* without s3Bucket / s3Object.key, or a well-formed one
Resources ==
    { NoResources,
      [kind |-> "empty", bucket |-> Missing, key |-> <<>>, versionId |-> Missing],
      [kind |-> "malformed", bucket |-> Missing, key |-> <<>>, versionId |-> Missing] }
    \cup [kind : {"ok"}, bucket : {AffectedBucket}, key : AffectedKeys, versionId : Versions]

NoScore == [kind |-> "absent", val |-> 0]

\* what json.loads yields when there is nothing to yield (None)
NoneData == [kind |-> "none", score |-> NoScore, desc |-> Missing, res |-> NoResources]

\* the bodies get_object may deliver: text that is no JSON, JSON that parses
\* to an empty (falsy) value, or a classification report
Bodies ==
    { [kind |-> "malformed", score |-> NoScore, desc |-> Missing, res |-> NoResources],
      [kind |-> "empty", score |-> NoScore, desc |-> Missing, res |-> NoResources] }
    \cup [kind : {"report"}, score : Scores, desc : Descriptions, res : Resources]

\* the outcomes of s3.get_object
GetObjectResults ==
    [outcome : {"ClientError", "OtherError"}, body : {NoneData}]
    \cup [outcome : {"ok"}, body : Bodies]

MetricNames ==
    {"EmptyObject", "MissingResources", "TaggingSkipped", "TaggingSuccess", "TaggingFailed"}

NoMetrics == [m \in MetricNames |-> 0]

\* the objects (and object versions) stored in the affected bucket; a finding
\* may name a version that is no longer there, and a put on it cannot succeed
Objects ==
    { << AffectedBucket, <<"k1">>, Missing >>,
      << AffectedBucket, <<"k1">>, "v1" >>,
      << AffectedBucket, <<"k2">>, Missing >> }

\* a tag and a lifecycle rule put there by somebody else, before the Tagger ran
ForeignTagSet == { <<"Owner", "ops">> }

ForeignRules == << [prefix |-> <<"logs">>, status |-> "Enabled"] >>

\* ------------------------------------------------------------------------
\* Values of the Notification Configurator
\* ------------------------------------------------------------------------

RequestTypes == {"Create", "Update", "Delete"}

\* ResourceProperties.BucketName: absent, the empty string, or a bucket
BucketNames == { Missing, "", "b1", "b2" }

\* the buckets the storage service holds
ConfigBuckets == { "b1", "b2" }

\* a notification configuration document is a set of its members
EmptyDocument == {}

Documents == { EmptyDocument, {"QueueConfigurations"}, {"TopicConfigurations"} }

\* ResourceProperties: hasConfig says whether NotificationConfiguration is there
Properties == [bucket : BucketNames, hasConfig : BOOLEAN, config : Documents]

NoRequest == [type |-> Missing, props |-> [bucket |-> Missing, hasConfig |-> FALSE, config |-> EmptyDocument]]

NoResult == [fn |-> Missing, raised |-> Missing, value |-> Missing, calls |-> <<>>]

NoResponse == [status |-> Missing, physicalId |-> Missing]

VARIABLES
    pc,                \* per invocation: where handler stands
    nrecords,          \* per invocation: len(records) of its event
    idx,               \* per invocation: records taken from the loop so far
    fetched,           \* per invocation: how s3.get_object ended for the current record
    data,              \* per invocation: what get_json_object returned for the current record
    calls,             \* per invocation: storage calls issued for the current record
    metricsBefore,     \* per invocation: the counters when the current record was taken
    metrics,           \* per invocation: the Metrics object's counters
    exc,               \* per invocation: the exception that left handler
    objectTags,        \* storage service: tag set of each object
    lifecycle,         \* storage service: lifecycle rules of the affected bucket
    lastTagPut,        \* history: value of the last successful tag-put per object
    lastLifecyclePut,  \* history: prefix of the last successful lifecycle-put
    modState,          \* Configurator: "unloaded", "loaded" or "failed" (import raised)
    loggerBound,       \* Configurator: the module global `logger` is bound
    s3Bound,           \* Configurator: the module global `s3` is bound
    initFailed,        \* Configurator: helper.init_failure was called
    request,           \* Configurator: the request of the last invocation
    result,            \* Configurator: what create / delete did in the last invocation
    response,          \* Configurator: what the helper sent to the provisioning system
    notification       \* storage service: notification configuration of each bucket

taggerVars ==
    << pc, nrecords, idx, fetched, data, calls, metricsBefore, metrics, exc,
       objectTags, lifecycle, lastTagPut, lastLifecyclePut >>

configVars ==
    << modState, loggerBound, s3Bound, initFailed, request, result, response, notification >>

vars == << taggerVars, configVars >>

\* ------------------------------------------------------------------------
\* Classification Tagger
\* ------------------------------------------------------------------------

\* a storage call as the service sees it
Call(op, bucket, key, version, tagging, rules, outcome) ==
    [op |-> op, bucket |-> bucket, key |-> key, versionId |-> version,
     tagging |-> tagging, rules |-> rules, outcome |-> outcome]

\* get_json_object: any exception (of get_object, of decoding, of json.loads)
\* is caught and the function falls off its end, returning None
get_json_object(got) ==
    IF got.outcome # "ok" THEN NoneData
    ELSE IF got.body.kind = "malformed" THEN NoneData
    ELSE got.body

\* Python's `not data`, as a bug would have it: only None counts as no data
Falsy_IsNone(d) == d.kind = "none"

\* Python's `not data`
Falsy(d) == d.kind \in {"none", "empty"}

\* int(detail["severity"]["score"])
PyInt(score) ==
    IF score.kind = "absent" THEN [ok |-> FALSE, exc |-> "KeyError", val |-> 0]
    ELSE IF score.kind = "text" THEN [ok |-> FALSE, exc |-> "ValueError", val |-> 0]
    ELSE [ok |-> TRUE, exc |-> Missing, val |-> score.val]

\* Python's `not resourcesAffected`, as a bug would have it: only an absent member
NoResourcesAffected_IsAbsent(res) == res.kind = "absent"

\* Python's `not resourcesAffected` (absent defaults to {})
NoResourcesAffected(res) == res.kind \in {"absent", "empty"}

\* the threshold test, as an off-by-one would have it
BelowThreshold_OffByOne(score) == score < SCORE_THRESHOLD - 1

\* the threshold test of process_record
BelowThreshold(score) == score < SCORE_THRESHOLD

\* process_record from the return of get_json_object to the threshold decision:
\* what it does next, the metric it adds and the exception it raises
Decide(d) ==
    IF Falsy(d)
    THEN [step |-> "return", metric |-> "EmptyObject", exc |-> Missing]
    ELSE IF ~PyInt(d.score).ok
    THEN [step |-> "raise", metric |-> Missing, exc |-> PyInt(d.score).exc]
    ELSE IF d.desc = Missing
    THEN [step |-> "raise", metric |-> Missing, exc |-> "KeyError"]
    ELSE IF NoResourcesAffected(d.res)
    THEN [step |-> "return", metric |-> "MissingResources", exc |-> Missing]
    ELSE IF d.res.kind # "ok"
    THEN [step |-> "raise", metric |-> Missing, exc |-> "KeyError"]
    ELSE IF BelowThreshold(PyInt(d.score).val)
    THEN [step |-> "return", metric |-> "TaggingSkipped", exc |-> Missing]
    ELSE [step |-> "tag", metric |-> Missing, exc |-> Missing]

\* add_metric(name, Count, 1)
AddMetric(m, name) == [m EXCEPT ![name] = @ + 1]

\* where handler's loop goes when process_record returns
AfterRecord(inv, taken) == IF taken < nrecords[inv] THEN "loop" ELSE "returned"

\* handler is invoked with an event of at most max records
InvokeWith(inv, max) ==
    /\ pc[inv] = "idle"
    /\ \E n \in 0..max :
        /\ nrecords' = [nrecords EXCEPT ![inv] = n]
        /\ pc' = [pc EXCEPT ![inv] = IF n = 0 THEN "returned" ELSE "loop"]
    /\ UNCHANGED << idx, fetched, data, calls, metricsBefore, metrics, exc,
                    objectTags, lifecycle, lastTagPut, lastLifecyclePut >>
    /\ UNCHANGED configVars

Invoke(inv) == InvokeWith(inv, MaxRecords)

\* handler takes the next record; process_record fetches the report (one of
\* `results`) and decides
ProcessRecordWith(inv, results) ==
    /\ pc[inv] = "loop"
    /\ \E rec \in EventRecords, got \in results :
        LET key == unquote_plus(rec.key)
            get == Call("get_object", rec.bucket, key, rec.versionId, {}, <<>>, got.outcome)
            d   == get_json_object(got)
            dec == Decide(d)
        IN  /\ idx' = [idx EXCEPT ![inv] = @ + 1]
            /\ fetched' = [fetched EXCEPT ![inv] = got]
            /\ data' = [data EXCEPT ![inv] = d]
            /\ calls' = [calls EXCEPT ![inv] = << get >>]
            /\ metricsBefore' = [metricsBefore EXCEPT ![inv] = metrics[inv]]
            /\ metrics' = [metrics EXCEPT ![inv] =
                              IF dec.metric = Missing THEN @ ELSE AddMetric(@, dec.metric)]
            /\ exc' = [exc EXCEPT ![inv] = dec.exc]
            /\ pc' = [pc EXCEPT ![inv] =
                         IF dec.step = "raise" THEN "raised"
                         ELSE IF dec.step = "tag" THEN "tag"
                         ELSE AfterRecord(inv, idx[inv] + 1)]
    /\ UNCHANGED << nrecords, objectTags, lifecycle, lastTagPut, lastLifecyclePut >>
    /\ UNCHANGED configVars

ProcessRecord(inv) == ProcessRecordWith(inv, GetObjectResults)

\* the Tagging parameter tag_object builds
TagSet(value) == { << TAG_KEY_NAME, value >> }

\* the target of the tag-put: the affected object, not the report
TagTarget(d) == << d.res.bucket, d.res.key, d.res.versionId >>

\* tag_object: one put_object_tagging; a ClientError is caught and counted,
\* any other exception leaves tag_object, process_record and handler
TagObject(inv) ==
    /\ pc[inv] = "tag"
    /\ \E outcome \in S3Outcomes :
        LET d      == data[inv]
            target == TagTarget(d)
            tagset == TagSet(d.desc)
            call   == Call("put_object_tagging", target[1], target[2], target[3],
                           tagset, <<>>, outcome)
        IN  /\ outcome = "ok" => target \in DOMAIN objectTags
            /\ calls' = [calls EXCEPT ![inv] = Append(@, call)]
            /\ IF outcome = "ok"
               THEN /\ objectTags' = [objectTags EXCEPT ![target] = tagset]
                    /\ lastTagPut' = [lastTagPut EXCEPT ![target] = d.desc]
                    /\ metrics' = [metrics EXCEPT ![inv] = AddMetric(@, "TaggingSuccess")]
                    /\ pc' = [pc EXCEPT ![inv] = "lifecycle"]
                    /\ exc' = exc
               ELSE IF outcome = "ClientError"
               THEN /\ metrics' = [metrics EXCEPT ![inv] = AddMetric(@, "TaggingFailed")]
                    /\ pc' = [pc EXCEPT ![inv] = "lifecycle"]
                    /\ UNCHANGED << objectTags, lastTagPut, exc >>
               ELSE /\ pc' = [pc EXCEPT ![inv] = "raised"]
                    /\ exc' = [exc EXCEPT ![inv] = "BotoCoreError"]
                    /\ UNCHANGED << objectTags, lastTagPut, metrics >>
    /\ UNCHANGED << nrecords, idx, fetched, data, metricsBefore, lifecycle, lastLifecyclePut >>
    /\ UNCHANGED configVars

\* one rule of a lifecycle configuration
LifecycleRule(prefix) ==
    [prefix |-> prefix, status |-> "Enabled",
     transitionDays |-> GLACIER_TRANSITION_DAYS, expirationDays |-> EXPIRE_OBJECTS_DAYS]

\* the configuration, as a merge with the bucket's rules would build it
LifecycleRules_Merged(key) == Append(lifecycle, LifecycleRule(key))

\* the LifecycleConfiguration lifecycle_config builds
LifecycleRules(key) == << LifecycleRule(key) >>

\* lifecycle_config: one put_bucket_lifecycle_configuration; a ClientError is
\* caught, any other exception leaves lifecycle_config, process_record and handler
LifecycleConfig(inv) ==
    /\ pc[inv] = "lifecycle"
    /\ \E outcome \in S3Outcomes :
        LET d     == data[inv]
            rules == LifecycleRules(d.res.key)
            call  == Call("put_bucket_lifecycle_configuration", d.res.bucket, <<>>, Missing,
                          {}, rules, outcome)
        IN  /\ outcome = "ok" => d.res.bucket = AffectedBucket
            /\ calls' = [calls EXCEPT ![inv] = Append(@, call)]
            /\ IF outcome = "ok"
               THEN /\ lifecycle' = rules
                    /\ lastLifecyclePut' = d.res.key
                    /\ pc' = [pc EXCEPT ![inv] = AfterRecord(inv, idx[inv])]
                    /\ exc' = exc
               ELSE IF outcome = "ClientError"
               THEN /\ pc' = [pc EXCEPT ![inv] = AfterRecord(inv, idx[inv])]
                    /\ UNCHANGED << lifecycle, lastLifecyclePut, exc >>
               ELSE /\ pc' = [pc EXCEPT ![inv] = "raised"]
                    /\ exc' = [exc EXCEPT ![inv] = "BotoCoreError"]
                    /\ UNCHANGED << lifecycle, lastLifecyclePut >>
    /\ UNCHANGED << nrecords, idx, fetched, data, metricsBefore, metrics, objectTags, lastTagPut >>
    /\ UNCHANGED configVars

NoFetch == [outcome |-> Missing, body |-> NoneData]

\* handler has returned or raised: log_metrics flushes the counters and the
\* execution environment is free for the next event
Finish(inv) ==
    /\ pc[inv] \in {"returned", "raised"}
    /\ pc' = [pc EXCEPT ![inv] = "idle"]
    /\ nrecords' = [nrecords EXCEPT ![inv] = 0]
    /\ idx' = [idx EXCEPT ![inv] = 0]
    /\ fetched' = [fetched EXCEPT ![inv] = NoFetch]
    /\ data' = [data EXCEPT ![inv] = NoneData]
    /\ calls' = [calls EXCEPT ![inv] = <<>>]
    /\ metricsBefore' = [metricsBefore EXCEPT ![inv] = NoMetrics]
    /\ metrics' = [metrics EXCEPT ![inv] = NoMetrics]
    /\ exc' = [exc EXCEPT ![inv] = Missing]
    /\ UNCHANGED << objectTags, lifecycle, lastTagPut, lastLifecyclePut >>
    /\ UNCHANGED configVars

\* ------------------------------------------------------------------------
\* Notification Configurator
\* ------------------------------------------------------------------------

\* Python's `not bucket_name`: None or the empty string
NoBucketName(name) == name \in { Missing, "" }

\* props.get("NotificationConfiguration", {})
ConfigOf(props) == IF props.hasConfig THEN props.config ELSE EmptyDocument

\* put_bucket_notification, as a bug would have it: the ClientError is logged
\* and swallowed
put_bucket_notification_Swallow(bucket, config, outcome) ==
    [raised |-> IF outcome = "OtherError" THEN "BotoCoreError" ELSE Missing,
     calls  |-> << [bucket |-> bucket, config |-> config, outcome |-> outcome] >>]

\* put_bucket_notification: one put_bucket_notification_configuration; a
\* ClientError is logged and raised again, any other exception passes through
put_bucket_notification(bucket, config, outcome) ==
    [raised |-> IF outcome = "ok" THEN Missing
                ELSE IF outcome = "ClientError" THEN "ClientError"
                ELSE "BotoCoreError",
     calls  |-> << [bucket |-> bucket, config |-> config, outcome |-> outcome] >>]

\* create, registered for Create and for Update
create(props, outcome) ==
    IF NoBucketName(props.bucket)
    THEN [fn |-> "create", raised |-> "ValueError", value |-> Missing, calls |-> <<>>]
    ELSE IF ConfigOf(props) = EmptyDocument
    THEN [fn |-> "create", raised |-> "ValueError", value |-> Missing, calls |-> <<>>]
    ELSE LET put == put_bucket_notification(props.bucket, ConfigOf(props), outcome)
         IN  [fn |-> "create", raised |-> put.raised,
              value |-> IF put.raised = Missing THEN "ResultsNotifications" ELSE Missing,
              calls |-> put.calls]

\* the document delete puts, as a bug would have it: the request's own
DeleteDocument_FromRequest(props) == ConfigOf(props)

\* the document delete puts: the empty one removes the bucket's notifications
DeleteDocument(props) == EmptyDocument

\* delete, registered for Delete
delete(props, outcome) ==
    IF NoBucketName(props.bucket)
    THEN [fn |-> "delete", raised |-> "ValueError", value |-> Missing, calls |-> <<>>]
    ELSE LET put == put_bucket_notification(props.bucket, DeleteDocument(props), outcome)
         IN  [fn |-> "delete", raised |-> put.raised, value |-> Missing, calls |-> put.calls]

\* The module is imported: the helper is built, then logger and s3 inside the
\* try block (an exception of either goes to helper.init_failure and leaves
\* the rest of the block undone), then the functions are defined; the
\* decorator of handler reads the global `logger` and raises NameError when
\* it was never bound.
LoadModule ==
    /\ modState = "unloaded"
    /\ \E loggerOk \in BOOLEAN, clientOk \in BOOLEAN :
        /\ loggerBound' = loggerOk
        /\ s3Bound' = (loggerOk /\ clientOk)
        /\ initFailed' = ~(loggerOk /\ clientOk)
        /\ modState' = IF loggerOk THEN "loaded" ELSE "failed"
    /\ UNCHANGED << request, result, response, notification >>
    /\ UNCHANGED taggerVars

\* handler: helper(event, context). The helper answers FAILED by itself after
\* an init_failure; otherwise it runs the function registered for the request
\* type, answers FAILED when it raises and SUCCESS (with the returned value as
\* physical resource id, or one it makes up) when it returns.
ConfigHandler ==
    /\ modState = "loaded"
    /\ \E type \in RequestTypes, props \in Properties, outcome \in S3Outcomes :
        LET r == IF type \in {"Create", "Update"}
                 THEN create(props, outcome)
                 ELSE delete(props, outcome)
        IN  /\ request' = [type |-> type, props |-> props]
            /\ IF initFailed
               THEN /\ result' = NoResult
                    /\ response' = [status |-> "FAILED", physicalId |-> "generated"]
                    /\ UNCHANGED notification
               ELSE /\ result' = r
                    /\ response' =
                          [status |-> IF r.raised = Missing THEN "SUCCESS" ELSE "FAILED",
                           physicalId |-> IF r.value = Missing THEN "generated" ELSE r.value]
                    /\ notification' =
                          IF Len(r.calls) = 1 /\ r.calls[1].outcome = "ok"
                          THEN [notification EXCEPT ![r.calls[1].bucket] = r.calls[1].config]
                          ELSE notification
    /\ UNCHANGED << modState, loggerBound, s3Bound, initFailed >>
    /\ UNCHANGED taggerVars

TaggerInit ==
    /\ pc = [inv \in Invocations |-> "idle"]
    /\ nrecords = [inv \in Invocations |-> 0]
    /\ idx = [inv \in Invocations |-> 0]
    /\ fetched = [inv \in Invocations |-> NoFetch]
    /\ data = [inv \in Invocations |-> NoneData]
    /\ calls = [inv \in Invocations |-> <<>>]
    /\ metricsBefore = [inv \in Invocations |-> NoMetrics]
    /\ metrics = [inv \in Invocations |-> NoMetrics]
    /\ exc = [inv \in Invocations |-> Missing]
    /\ objectTags = [o \in Objects |-> ForeignTagSet]
    /\ lifecycle = ForeignRules
    /\ lastTagPut = [o \in Objects |-> Missing]
    /\ lastLifecyclePut = <<>>

ConfigInit ==
    /\ modState = "unloaded"
    /\ loggerBound = FALSE
    /\ s3Bound = FALSE
    /\ initFailed = FALSE
    /\ request = NoRequest
    /\ result = NoResult
    /\ response = NoResponse
    /\ notification = [b \in ConfigBuckets |-> {"LambdaFunctionConfigurations"}]

Init == TaggerInit /\ ConfigInit

\* one execution environment of the Tagger: events are handled one after the other
Next ==
    \/ Invoke(1)
    \/ ProcessRecord(1)
    \/ TagObject(1)
    \/ LifecycleConfig(1)
    \/ Finish(1)

Spec == Init /\ [][Next]_vars

\* the reports of the interleaved runs: well-formed findings at the threshold
SharedResults ==
    [outcome : {"ok"},
     body : [kind : {"report"},
             score : {[kind |-> "int", val |-> SCORE_THRESHOLD]},
             desc : {"Low", "High"},
             res : [kind : {"ok"}, bucket : {AffectedBucket}, key : AffectedKeys,
                    versionId : {Missing}]]]

\* several execution environments of the Tagger run at once, each handling
\* events; their storage calls interleave
NextInterleaved ==
    \E inv \in Invocations :
        \/ Invoke(inv)
        \/ ProcessRecordWith(inv, SharedResults)
        \/ TagObject(inv)
        \/ LifecycleConfig(inv)
        \/ Finish(inv)

SpecInterleaved == Init /\ [][NextInterleaved]_vars

\* the Configurator: the module is loaded once, then serves requests
NextConfigurator ==
    \/ LoadModule
    \/ ConfigHandler

SpecConfigurator == Init /\ [][NextConfigurator]_vars

\* ------------------------------------------------------------------------
\* Properties of the Classification Tagger
\* ------------------------------------------------------------------------

\* process_record has finished (returned or raised) for the current record
RecordDone(inv) == idx[inv] > 0 /\ pc[inv] \in {"loop", "returned", "raised"}

\* the storage calls of one kind issued for the current record
CallsOf(inv, op) == { i \in DOMAIN calls[inv] : calls[inv][i].op = op }

NoPuts(inv) ==
    /\ CallsOf(inv, "put_object_tagging") = {}
    /\ CallsOf(inv, "put_bucket_lifecycle_configuration") = {}

\* what the current record added to a counter
Delta(inv, name) == metrics[inv][name] - metricsBefore[inv][name]

\* the current record added 1 to this counter and nothing to the others
OnlyMetric(inv, name) ==
    \A m \in MetricNames : Delta(inv, m) = IF m = name THEN 1 ELSE 0

\* get_object delivered a report for the current record
IsReport(inv) ==
    idx[inv] > 0 /\ fetched[inv].outcome = "ok" /\ fetched[inv].body.kind = "report"

Report(inv) == fetched[inv].body

ScoreBelow(inv) ==
    /\ IsReport(inv)
    /\ Report(inv).score.kind = "int"
    /\ Report(inv).score.val < SCORE_THRESHOLD

ScoreAtLeast(inv) ==
    /\ IsReport(inv)
    /\ Report(inv).score.kind = "int"
    /\ Report(inv).score.val >= SCORE_THRESHOLD

\* the report has its description and names the affected bucket and key
WellFormedRest(inv) == Report(inv).desc # Missing /\ Report(inv).res.kind = "ok"

\* C1 as stated: every record whose report has a score below the threshold
\* issues no tag-put and no lifecycle-put and adds exactly 1 to TaggingSkipped.
C1_Original ==
    \A inv \in Invocations :
        ScoreBelow(inv) =>
            /\ RecordDone(inv)
            /\ NoPuts(inv)
            /\ OnlyMetric(inv, "TaggingSkipped")

\* C1 amended: a record whose report has a score below the threshold issues
\* no tag-put and no lifecycle-put; when the report also has a severity
\* description and a resourcesAffected naming bucket and key, process_record
\* returns and adds exactly 1 to TaggingSkipped (and nothing to other counters).
C1_SkipBelowThreshold ==
    \A inv \in Invocations :
        ScoreBelow(inv) =>
            /\ RecordDone(inv)
            /\ NoPuts(inv)
            /\ WellFormedRest(inv) =>
                  /\ pc[inv] # "raised"
                  /\ OnlyMetric(inv, "TaggingSkipped")

\* C1 witness: a well-formed report one below the threshold was skipped and counted
C1_Witness ==
    \E inv \in Invocations :
        /\ ScoreBelow(inv)
        /\ Report(inv).score.val = SCORE_THRESHOLD - 1
        /\ WellFormedRest(inv)
        /\ pc[inv] \in {"loop", "returned"}
        /\ Delta(inv, "TaggingSkipped") = 1

\* C2 as stated: every record whose report has a score at or above the
\* threshold (and names the affected object) issues exactly one tag-put with
\* the severity description on the affected bucket/key/version and exactly one
\* lifecycle-put on the affected bucket with the affected key as prefix,
\* however either call ends.
C2_Claim ==
    \A inv \in Invocations :
        (RecordDone(inv) /\ ScoreAtLeast(inv) /\ WellFormedRest(inv)) =>
            /\ Len(calls[inv]) = 3
            /\ calls[inv][2].op = "put_object_tagging"
            /\ calls[inv][2].bucket = Report(inv).res.bucket
            /\ calls[inv][2].key = Report(inv).res.key
            /\ calls[inv][2].versionId = Report(inv).res.versionId
            /\ calls[inv][2].tagging = { << TAG_KEY_NAME, Report(inv).desc >> }
            /\ calls[inv][3].op = "put_bucket_lifecycle_configuration"
            /\ calls[inv][3].bucket = Report(inv).res.bucket
            /\ Len(calls[inv][3].rules) = 1
            /\ calls[inv][3].rules[1].prefix = Report(inv).res.key

\* C3 as stated: handler never lets an exception out
C3_Claim == \A inv \in Invocations : pc[inv] # "raised"

\* a report process_record cannot read: no numeric score, no description, or
\* a resourcesAffected without bucket or key
Structural(inv) ==
    /\ IsReport(inv)
    /\ \/ Report(inv).score.kind # "int"
       \/ Report(inv).desc = Missing
       \/ Report(inv).res.kind = "malformed"

\* C4 as stated: only a structural error of the current record ends handler's
\* loop early (and it does); a failure of get_object, of the tag-put or of the
\* lifecycle-put never does.
C4_Claim ==
    \A inv \in Invocations :
        RecordDone(inv) =>
            /\ Structural(inv) => pc[inv] = "raised"
            /\ pc[inv] = "raised" => Structural(inv)

\* What does hold of handler's loop: an exception leaves handler only for a
\* structural error of the current record or for a tag-put or lifecycle-put
\* that raised something other than a ClientError.
LoopStopsOnlyUncaught ==
    \A inv \in Invocations :
        pc[inv] = "raised" =>
            \/ Structural(inv) /\ exc[inv] \in {"KeyError", "ValueError"}
            \/ exc[inv] = "BotoCoreError" /\ calls[inv][Len(calls[inv])].outcome = "OtherError"

\* What does hold of handler's loop: once an exception has left handler no
\* further record is taken and no further storage call is made by that
\* invocation, and the step that raised a structural error changed nothing
\* in the storage service.
RaisedIsFinal ==
    [][\A inv \in Invocations :
          /\ pc[inv] = "raised" =>
                /\ pc'[inv] \in {"raised", "idle"}
                /\ pc'[inv] = "raised" => (idx'[inv] = idx[inv] /\ calls'[inv] = calls[inv])
          /\ (pc[inv] = "loop" /\ pc'[inv] = "raised") =>
                (idx'[inv] <= nrecords[inv] /\ UNCHANGED << objectTags, lifecycle >>)]_vars

\* the fetch failed, or delivered no JSON or empty content
FetchFailedOrEmpty(inv) ==
    /\ idx[inv] > 0
    /\ \/ fetched[inv].outcome \in {"ClientError", "OtherError"}
       \/ fetched[inv].outcome = "ok" /\ fetched[inv].body.kind \in {"malformed", "empty"}

\* C5: when the fetch fails for any reason or yields empty content,
\* process_record raises nothing, issues no tag-put and no lifecycle-put, adds
\* exactly 1 to EmptyObject and is done with the record.
C5_EmptyObject ==
    \A inv \in Invocations :
        FetchFailedOrEmpty(inv) =>
            /\ pc[inv] \in {"loop", "returned"}
            /\ Len(calls[inv]) = 1
            /\ NoPuts(inv)
            /\ OnlyMetric(inv, "EmptyObject")

\* C5 witness: a second record whose report parsed to an empty value was
\* counted after a first one whose fetch failed in transport
C5_Witness ==
    \E inv \in Invocations :
        /\ idx[inv] = 2
        /\ fetched[inv].outcome = "ok"
        /\ fetched[inv].body.kind = "empty"
        /\ metrics[inv]["EmptyObject"] = 2
        /\ pc[inv] = "returned"

ResourcesMissing(inv) ==
    IsReport(inv) /\ Report(inv).res.kind \in {"absent", "empty"}

\* C6 as stated: every report whose resourcesAffected is absent or empty
\* yields no tag-put and no lifecycle-put and adds 1 to MissingResources, as
\* a normal outcome.
C6_Original ==
    \A inv \in Invocations :
        ResourcesMissing(inv) =>
            /\ pc[inv] \in {"loop", "returned"}
            /\ NoPuts(inv)
            /\ OnlyMetric(inv, "MissingResources")

\* C6 amended: a report whose resourcesAffected is absent or empty yields no
\* tag-put and no lifecycle-put; when the report has a numeric severity score
\* and a severity description, process_record returns normally and adds
\* exactly 1 to MissingResources.
C6_MissingResources ==
    \A inv \in Invocations :
        ResourcesMissing(inv) =>
            /\ RecordDone(inv)
            /\ NoPuts(inv)
            /\ (Report(inv).score.kind = "int" /\ Report(inv).desc # Missing) =>
                  /\ pc[inv] \in {"loop", "returned"}
                  /\ OnlyMetric(inv, "MissingResources")

\* C6 witness: a report at the threshold with an empty resourcesAffected was counted
C6_Witness ==
    \E inv \in Invocations :
        /\ IsReport(inv)
        /\ Report(inv).res.kind = "empty"
        /\ Report(inv).score.kind = "int"
        /\ Report(inv).score.val >= SCORE_THRESHOLD
        /\ Report(inv).desc # Missing
        /\ pc[inv] \in {"loop", "returned"}
        /\ Delta(inv, "MissingResources") = 1

\* ------------------------------------------------------------------------
\* Properties of the Notification Configurator
\* ------------------------------------------------------------------------

\* the last invocation ran create with a bucket name and a non-empty document
CreateWithBoth ==
    /\ result.fn = "create"
    /\ ~NoBucketName(request.props.bucket)
    /\ request.props.hasConfig
    /\ request.props.config # EmptyDocument

\* the last invocation ran delete with a bucket name
DeleteWithBucket ==
    /\ result.fn = "delete"
    /\ ~NoBucketName(request.props.bucket)

\* create issued exactly one put, on the request's bucket with the request's document
CreatePutsOnce ==
    /\ Len(result.calls) = 1
    /\ result.calls[1].bucket = request.props.bucket
    /\ result.calls[1].config = request.props.config

\* delete issued exactly one put, on the request's bucket with the empty document
DeletePutsOnce ==
    /\ Len(result.calls) = 1
    /\ result.calls[1].bucket = request.props.bucket
    /\ result.calls[1].config = {}

\* C7 as stated: create/update with a bucket name and a non-empty document
\* issues exactly one put with that document on that bucket and reports
\* "ResultsNotifications"; delete with a bucket name issues exactly one put
\* with an empty document whatever document the request carries.
C7_Original ==
    /\ CreateWithBoth =>
          /\ request.type \in {"Create", "Update"}
          /\ CreatePutsOnce
          /\ result.value = "ResultsNotifications"
    /\ DeleteWithBucket =>
          /\ request.type = "Delete"
          /\ DeletePutsOnce

\* C7 amended: as stated, but "ResultsNotifications" is reported when the put
\* succeeds (and only then); when the put fails, create raises and returns
\* no identifier.
C7_PutOnce ==
    /\ CreateWithBoth =>
          /\ request.type \in {"Create", "Update"}
          /\ CreatePutsOnce
          /\ (result.calls[1].outcome = "ok") <=> (result.value = "ResultsNotifications")
          /\ (result.calls[1].outcome = "ok") =>
                /\ response = [status |-> "SUCCESS", physicalId |-> "ResultsNotifications"]
                /\ notification[request.props.bucket] = request.props.config
    /\ DeleteWithBucket =>
          /\ request.type = "Delete"
          /\ DeletePutsOnce
          /\ (result.calls[1].outcome = "ok") => notification[request.props.bucket] = {}

\* C7 witness: a delete that carried a document cleared one bucket, after an
\* update had put the supplied document on the other
C7_Witness ==
    /\ DeleteWithBucket
    /\ request.props.bucket = "b1"
    /\ request.props.hasConfig
    /\ request.props.config = {"TopicConfigurations"}
    /\ result.calls[1].outcome = "ok"
    /\ notification["b1"] = {}
    /\ notification["b2"] = {"QueueConfigurations"}

\* C8: create and delete raise and put nothing when BucketName is absent or
\* empty, create also when NotificationConfiguration is absent or empty; a
\* put that fails is attempted once and its error leaves the function.
C8_RaisesWithoutPut ==
    result.fn # Missing =>
        /\ NoBucketName(request.props.bucket) =>
              /\ result.raised = "ValueError"
              /\ result.calls = <<>>
        /\ (result.fn = "create"
              /\ (~request.props.hasConfig \/ request.props.config = EmptyDocument)) =>
              /\ result.raised = "ValueError"
              /\ result.calls = <<>>
        /\ Len(result.calls) <= 1
        /\ (Len(result.calls) = 1 /\ result.calls[1].outcome # "ok") =>
              /\ result.raised # Missing
              /\ result.value = Missing
              /\ response.status = "FAILED"
        /\ (Len(result.calls) = 1 /\ result.calls[1].outcome = "ClientError") =>
              result.raised = "ClientError"

\* C8 witness: a delete whose put was answered with a ClientError raised it,
\* the bucket keeping the document an earlier create had put
C8_Witness ==
    /\ request.type = "Delete"
    /\ result.fn = "delete"
    /\ Len(result.calls) = 1
    /\ result.calls[1].outcome = "ClientError"
    /\ result.raised = "ClientError"
    /\ notification[request.props.bucket] = {"QueueConfigurations"}

\* C9 as stated: after a failure of the initial setup (logger or client) the
\* module has still finished loading, and an invocation is answered with a
\* failure response by the helper.
C9_Claim ==
    /\ modState # "failed"
    /\ (initFailed /\ request.type # Missing) =>
          /\ result.fn = Missing
          /\ response.status = "FAILED"

\* ------------------------------------------------------------------------
\* Properties of the storage state
\* ------------------------------------------------------------------------

\* C10: every lifecycle-put carries exactly one rule, for the current record's
\* affected key, and every tag-put exactly one tag, TAG_KEY_NAME with the
\* current record's description; so the bucket's lifecycle configuration is
\* exactly the rule of the last successful lifecycle-put and an object's tag
\* set exactly the tag of the last successful tag-put on it.
C10_LastWriteWins ==
    /\ \A inv \in Invocations : \A i \in DOMAIN calls[inv] :
          /\ calls[inv][i].op = "put_bucket_lifecycle_configuration" =>
                /\ Len(calls[inv][i].rules) = 1
                /\ calls[inv][i].rules[1].prefix = data[inv].res.key
          /\ calls[inv][i].op = "put_object_tagging" =>
                /\ Cardinality(calls[inv][i].tagging) = 1
                /\ \A t \in calls[inv][i].tagging :
                      t[1] = TAG_KEY_NAME /\ t[2] = data[inv].desc
    /\ lastLifecyclePut # <<>> =>
          /\ Len(lifecycle) = 1
          /\ lifecycle[1].prefix = lastLifecyclePut
    /\ \A o \in Objects :
          lastTagPut[o] # Missing => objectTags[o] = { << TAG_KEY_NAME, lastTagPut[o] >> }

\* a successful lifecycle-put for this prefix among the current record's calls
PutRule(inv, key) ==
    \E i \in DOMAIN calls[inv] :
        /\ calls[inv][i].op = "put_bucket_lifecycle_configuration"
        /\ calls[inv][i].outcome = "ok"
        /\ calls[inv][i].rules[1].prefix = key

\* C10 witness: two invocations in flight have each put a rule, for different
\* prefixes, and the bucket holds one of them only; an object tagged "Low"
\* before now carries "High" alone
C10_Witness ==
    /\ PutRule(1, <<"k1">>)
    /\ PutRule(2, <<"k2">>)
    /\ pc[1] = "loop"
    /\ pc[2] = "loop"
    /\ lifecycle = << LifecycleRule(<<"k1">>) >>
    /\ data[1].desc = "Low"
    /\ data[1].res.versionId = Missing
    /\ objectTags[<< AffectedBucket, <<"k1">>, Missing >>] = { << TAG_KEY_NAME, "High" >> }

=============================================================================
